---- MODULE Spec2Model ----
(***************************************************************************)
(* Model of the BPM tools of offley.fm:                                    *)
(*   scripts/estimate_bpm.py        single-track estimator (CLI)           *)
(*   scripts/update_station_bpm.py  station catalog updater                *)
(*                                                                         *)
(* Numbers.  Python floats are modelled by exact fixed-point integers:     *)
(*   tempo values        in units of 1/Scale BPM (doubling and halving a   *)
(*                       float are exact, so are they here),               *)
(*   rounded BPM values  in tenths of a BPM (the result of round(x, 1)),    *)
(*   confidence          in units of 1/ConfDen,                            *)
(*   times               in centiseconds.                                  *)
(* A float that overflows becomes an infinity; the largest finite          *)
(* magnitude of the model is MaxFinite BPM.                                *)
(***************************************************************************)
EXTENDS Integers, Sequences, FiniteSets, TLC

VARIABLES
    \* clamp_bpm, one loop test or loop body at a time
    cpc, cin, cbpm,
    \* estimate_bpm
    epc, duration, window_s, offsets, wins, estimates, loads, result,
    \* estimate_bpm.py main
    mpc, exists, out, exitCode,
    \* update_station_bpm.py main
    pc, disk, disk0, payload, idx, attempts, reads, writes

cvars == <<cpc, cin, cbpm>>
evars == <<epc, duration, window_s, offsets, wins, estimates, loads, result>>
mvars == <<mpc, exists, out, exitCode>>
uvars == <<pc, disk, disk0, payload, idx, attempts, reads, writes>>
vars == <<cvars, evars, mvars, uvars>>

----------------------------------------------------------------------------
(* Bounds of the model *)

\* largest tempo handed to clamp_bpm, in BPM
MaxTempo == 800
\* most negative tempo handed to clamp_bpm, in BPM
MaxNeg == 3
\* largest finite float magnitude of the model, in BPM
MaxFinite == 2000
\* longest station list of a catalog
MaxStations == 2

----------------------------------------------------------------------------
(* Numbers *)

Scale == 64
Lo == 75
Hi == 190

Min(a, b) == IF a < b THEN a ELSE b
Max(a, b) == IF a > b THEN a ELSE b

PosInf == MaxFinite * Scale + 1
NegInf == -(MaxFinite * Scale) - 1

\* float(value) of a whole number of BPM
ToFloat(v) == v * Scale

\* bpm *= 2.0
Double(b) ==
    IF 2 * b > MaxFinite * Scale THEN PosInf
    ELSE IF 2 * b < -(MaxFinite * Scale) THEN NegInf
    ELSE 2 * b

\* bpm /= 2.0
Halve(b) == IF b \in {PosInf, NegInf} THEN b ELSE b \div 2

\* the loop conditions of clamp_bpm
BelowRange(b) == b < Lo * Scale

AboveRangeWide(b) == b > 2 * Hi * Scale

AboveRange(b) == b > Hi * Scale

\* clamp_bpm as a function, for the inputs on which it returns
RECURSIVE FoldUp(_), FoldDown(_)
FoldUp(b) == IF BelowRange(b) THEN FoldUp(Double(b)) ELSE b
FoldDown(b) == IF AboveRange(b) THEN FoldDown(Halve(b)) ELSE b
clamp_bpm(b) == FoldDown(FoldUp(b))

----------------------------------------------------------------------------
(* clamp_bpm, step by step *)

ClampInputs == (-MaxNeg) .. MaxTempo

ClampIdle == cpc = "idle" /\ cin = 0 /\ cbpm = 0

\* bpm = float(value)
ClampInit ==
    /\ cin \in ClampInputs
    /\ cbpm = ToFloat(cin)
    /\ cpc = "doubling"

\* while bpm < 75.0: the test holds
ClampDoubleTest ==
    /\ cpc = "doubling"
    /\ BelowRange(cbpm)
    /\ cpc' = "double"
    /\ UNCHANGED <<cin, cbpm>>
    /\ UNCHANGED <<evars, mvars, uvars>>

\* bpm *= 2.0, and back to the test
ClampDouble ==
    /\ cpc = "double"
    /\ cbpm' = Double(cbpm)
    /\ cpc' = "doubling"
    /\ UNCHANGED cin
    /\ UNCHANGED <<evars, mvars, uvars>>

\* while bpm < 75.0: the test fails, on to the second loop
ClampDoubleExit ==
    /\ cpc = "doubling"
    /\ ~BelowRange(cbpm)
    /\ cpc' = "halving"
    /\ UNCHANGED <<cin, cbpm>>
    /\ UNCHANGED <<evars, mvars, uvars>>

\* while bpm > 190.0: the test holds
ClampHalveTest ==
    /\ cpc = "halving"
    /\ AboveRange(cbpm)
    /\ cpc' = "halve"
    /\ UNCHANGED <<cin, cbpm>>
    /\ UNCHANGED <<evars, mvars, uvars>>

\* bpm /= 2.0, and back to the test
ClampHalve ==
    /\ cpc = "halve"
    /\ cbpm' = Halve(cbpm)
    /\ cpc' = "halving"
    /\ UNCHANGED cin
    /\ UNCHANGED <<evars, mvars, uvars>>

\* while bpm > 190.0: the test fails; return bpm
ClampReturn ==
    /\ cpc = "halving"
    /\ ~AboveRange(cbpm)
    /\ cpc' = "done"
    /\ UNCHANGED <<cin, cbpm>>
    /\ UNCHANGED <<evars, mvars, uvars>>

----------------------------------------------------------------------------
(* estimate_bpm and bpm_for_window *)

\* None
Absent == -1
SampleRate == 22050
MinSeconds == 20
MinEnvelope == 8
HopLength == 512
MinWindow == 9000
MaxWindow == 18000
ConfDen == 180
NumWindows == 3

\* durations librosa.get_duration reports, in centiseconds, and tempo candidates
\* librosa.feature.tempo and beat_track produce, in BPM: for the single-track
\* estimator, and a smaller choice for the tracks of the catalog
Durations == {0, 3000, 60000, 120000}
Tempos == {37, 75, 93, 190, 381}
CatalogDurations == {0, 60000}
CatalogTempos == {93, 381}

NoResult == [bpm |-> Absent, conf |-> Absent]

Range(s) == {s[i] : i \in DOMAIN s}
MinOf(S) == CHOOSE x \in S : \A y \in S : x <= y
MaxOf(S) == CHOOSE x \in S : \A y \in S : x >= y
Count(s, v) == Cardinality({i \in DOMAIN s : s[i] = v})

\* round(): n/d to the nearest integer, ties to the even one
RoundHalfEven(n, d) ==
    LET q == n \div d
        r == n % d
    IN  IF 2 * r < d THEN q
        ELSE IF 2 * r > d THEN q + 1
        ELSE IF q % 2 = 0 THEN q ELSE q + 1

\* window_s = min(180.0, max(90.0, duration * 0.16))
WindowLength(d) == Min(MaxWindow, Max(MinWindow, (d * 16) \div 100))

\* offsets = [duration * 0.1, duration * 0.46, duration * 0.78]
WindowOffsets(d) == <<(d * 10) \div 100, (d * 46) \div 100, (d * 78) \div 100>>

\* the audio between max(0, offset) and the end of the track, at most len long
Available(d, offset, len) == Min(len, Max(0, d - Max(0, offset)))

\* what librosa.load can deliver: all of it, or nothing (the file is shorter
\* than its header says)
LoadedLengths(avail) == {0, avail}

\* y.size for a segment of cs centiseconds
Samples(cs) == (cs * SampleRate) \div 100

\* onset_env.size
EnvelopeSize(samples) == 1 + samples \div HopLength

\* round((tempo_onset + tempo_beat_scalar) * 0.5, 1), in tenths
WindowMeanUnclamped(a, b) == RoundHalfEven(10 * (ToFloat(a) + ToFloat(b)), 2 * Scale)

WindowMean(a, b) == RoundHalfEven(10 * (clamp_bpm(ToFloat(a)) + clamp_bpm(ToFloat(b))), 2 * Scale)

\* bpm_for_window once the segment is loaded: samples = y.size, a and b are
\* the two tempo candidates
bpm_for_window(samples, a, b) ==
    IF samples < SampleRate * MinSeconds THEN Absent
    ELSE IF EnvelopeSize(samples) < MinEnvelope THEN Absent
    ELSE WindowMean(a, b)

\* np.sort
Sorted(es) ==
    CHOOSE s \in [DOMAIN es -> Range(es)] :
        /\ \A i, j \in DOMAIN es : i < j => s[i] <= s[j]
        /\ \A v \in Range(es) : Count(s, v) = Count(es, v)

\* round(float(np.median(estimates)), 1): the values it can return.  The mean
\* of the two middle values of an even count can lie half way between two
\* tenths; which of the two the float rounding picks depends on the binary
\* representation, so both are possible.
MedianRounded(es) ==
    LET s == Sorted(es)
        n == Len(es)
    IN  IF n % 2 = 1 THEN {s[(n + 1) \div 2]}
        ELSE LET sum == s[n \div 2] + s[n \div 2 + 1]
             IN  IF sum % 2 = 0 THEN {sum \div 2}
                 ELSE {(sum - 1) \div 2, (sum + 1) \div 2}

\* spread = max - min if len(estimates) > 1 else 0.0
Spread(es) == IF Len(es) > 1 THEN MaxOf(Range(es)) - MinOf(Range(es)) ELSE 0

\* confidence = max(0.0, min(1.0, 1.0 - spread / 18.0)), in units of 1/ConfDen
ConfidenceUnclamped(spread) == Min(ConfDen, ConfDen - spread)

Confidence(spread) == Max(0, Min(ConfDen, ConfDen - spread))

EstIdle ==
    /\ epc = "idle"
    /\ duration = Absent
    /\ window_s = Absent
    /\ offsets = <<>>
    /\ wins = <<>>
    /\ estimates = <<>>
    /\ loads = 0
    /\ result = NoResult

\* the call of estimate_bpm(track_path)
EstCall ==
    /\ epc' = "called"
    /\ duration' = Absent
    /\ window_s' = Absent
    /\ offsets' = <<>>
    /\ wins' = <<>>
    /\ estimates' = <<>>
    /\ loads' = 0
    /\ result' = NoResult

\* the caller has taken the result
EstClear ==
    /\ epc' = "idle"
    /\ duration' = Absent
    /\ window_s' = Absent
    /\ offsets' = <<>>
    /\ wins' = <<>>
    /\ estimates' = <<>>
    /\ loads' = 0
    /\ result' = NoResult

\* get_duration without the `duration <= 0` return
EstDurationUnguarded(ds) ==
    /\ epc = "called"
    /\ \E d \in ds :
        /\ duration' = d
        /\ epc' = "windows"
        /\ window_s' = WindowLength(d)
        /\ offsets' = WindowOffsets(d)
    /\ UNCHANGED <<wins, estimates, loads, result>>
    /\ UNCHANGED <<cvars, mvars, uvars>>

\* duration = librosa.get_duration(path=...); if duration <= 0: return None, 0.0
EstDuration(ds) ==
    /\ epc = "called"
    /\ \E d \in ds :
        /\ duration' = d
        /\ IF d <= 0
           THEN /\ epc' = "returned"
                /\ result' = [bpm |-> Absent, conf |-> 0]
                /\ UNCHANGED <<window_s, offsets>>
           ELSE /\ epc' = "windows"
                /\ window_s' = WindowLength(d)
                /\ offsets' = WindowOffsets(d)
                /\ UNCHANGED result
    /\ UNCHANGED <<wins, estimates, loads>>
    /\ UNCHANGED <<cvars, mvars, uvars>>

\* librosa.get_duration raises (corrupt or unsupported file)
EstDurationRaises ==
    /\ epc = "called"
    /\ epc' = "raised"
    /\ UNCHANGED <<duration, window_s, offsets, wins, estimates, loads, result>>
    /\ UNCHANGED <<cvars, mvars, uvars>>

\* one iteration of `for offset in offsets`
EstWindow(tempos) ==
    /\ epc = "windows"
    /\ Len(wins) < NumWindows
    /\ LET offset == offsets[Len(wins) + 1]
           avail == Available(duration, offset, window_s)
       IN  \E cs \in LoadedLengths(avail), a \in tempos, b \in tempos :
             LET bpm == bpm_for_window(Samples(cs), a, b)
             IN  /\ wins' = Append(wins, bpm)
                 /\ estimates' = IF bpm # Absent THEN Append(estimates, bpm)
                                 ELSE estimates
    /\ loads' = loads + 1
    /\ UNCHANGED <<epc, duration, window_s, offsets, result>>
    /\ UNCHANGED <<cvars, mvars, uvars>>

\* librosa.load raises inside bpm_for_window
EstWindowRaises ==
    /\ epc = "windows"
    /\ Len(wins) < NumWindows
    /\ loads' = loads + 1
    /\ epc' = "raised"
    /\ UNCHANGED <<duration, window_s, offsets, wins, estimates, result>>
    /\ UNCHANGED <<cvars, mvars, uvars>>

\* if not estimates: return None, 0.0 ... return round(median, 1), confidence
EstReturn ==
    /\ epc = "windows"
    /\ Len(wins) = NumWindows
    /\ epc' = "returned"
    /\ IF estimates = <<>>
       THEN result' = [bpm |-> Absent, conf |-> 0]
       ELSE \E m \in MedianRounded(estimates) :
              result' = [bpm |-> m, conf |-> Confidence(Spread(estimates))]
    /\ UNCHANGED <<duration, window_s, offsets, wins, estimates, loads>>
    /\ UNCHANGED <<cvars, mvars, uvars>>

----------------------------------------------------------------------------
(* estimate_bpm.py: main *)

NoOut == [ok |-> FALSE, error |-> "", bpm |-> Absent, bpmInt |-> Absent, confidence |-> Absent]

CliIdle == mpc = "idle" /\ exists = FALSE /\ out = NoOut /\ exitCode = Absent

\* track_path = Path(args.track_path); if not track_path.exists(): ... return 1
CliTrackNotFound ==
    /\ mpc = "start"
    /\ ~exists
    /\ out' = [NoOut EXCEPT !.error = "track not found"]
    /\ exitCode' = 1
    /\ mpc' = "exit"
    /\ UNCHANGED exists
    /\ UNCHANGED <<cvars, evars, uvars>>

\* bpm, confidence = estimate_bpm(track_path): the call
CliEstimate ==
    /\ mpc = "start"
    /\ exists
    /\ EstCall
    /\ mpc' = "estimating"
    /\ UNCHANGED <<exists, out, exitCode>>
    /\ UNCHANGED <<cvars, uvars>>

\* if bpm is None: ... return 1
CliUnavailable ==
    /\ mpc = "estimating"
    /\ epc = "returned"
    /\ result.bpm = Absent
    /\ out' = [NoOut EXCEPT !.error = "bpm unavailable"]
    /\ exitCode' = 1
    /\ mpc' = "exit"
    /\ UNCHANGED exists
    /\ UNCHANGED <<cvars, evars, uvars>>

\* print(json.dumps({"ok": True, ...})); return 0
CliPrint ==
    /\ mpc = "estimating"
    /\ epc = "returned"
    /\ result.bpm # Absent
    /\ out' = [ok |-> TRUE, error |-> "", bpm |-> result.bpm,
               bpmInt |-> RoundHalfEven(result.bpm, 10),
               confidence |-> RoundHalfEven(100 * result.conf, ConfDen)]
    /\ exitCode' = 0
    /\ mpc' = "exit"
    /\ UNCHANGED exists
    /\ UNCHANGED <<cvars, evars, uvars>>

\* an error raised by librosa leaves main uncaught
CliCrash ==
    /\ mpc = "estimating"
    /\ epc = "raised"
    /\ mpc' = "crashed"
    /\ exitCode' = 1
    /\ UNCHANGED <<exists, out>>
    /\ UNCHANGED <<cvars, evars, uvars>>

----------------------------------------------------------------------------
(* update_station_bpm.py: the catalog as a JSON value *)

\* a JSON string is a sequence of tokens: "/", " " and path components
Str(s) == [type |-> "str", val |-> s]
Num == [type |-> "number", val |-> <<>>]

\* isinstance(track_value, str)
IsStr(v) == v.type = "str"

\* str.strip()
RECURSIVE LStripSpace(_), RStripSpace(_)
LStripSpace(s) == IF s # <<>> /\ Head(s) = " " THEN LStripSpace(Tail(s)) ELSE s
RStripSpace(s) ==
    IF s # <<>> /\ s[Len(s)] = " " THEN RStripSpace(SubSeq(s, 1, Len(s) - 1)) ELSE s
Strip(s) == RStripSpace(LStripSpace(s))

\* track_value.startswith("/media/")
StartsWithMedia(s) == Len(s) >= 3 /\ s[1] = "/" /\ s[2] = "media" /\ s[3] = "/"

\* track_value.lstrip("/")
RECURSIVE LStripSlash(_)
LStripSlash(s) == IF s # <<>> /\ Head(s) = "/" THEN LStripSlash(Tail(s)) ELSE s

\* the components of a relative path
Components(s) == SelectSeq(s, LAMBDA t : t # "/")

\* ROOT / "public" / track_value.lstrip("/")  or  ROOT / track_value.lstrip("/")
TrackPath(s) ==
    IF StartsWithMedia(s)
    THEN <<"ROOT", "public">> \o Components(LStripSlash(s))
    ELSE <<"ROOT">> \o Components(LStripSlash(s))

\* the audio files on disk
Files == { <<"ROOT", "public", "media", "a.mp3">>, <<"ROOT", "b.mp3">> }

\* track_path.exists()
PathExists(p) == p \in Files

TrackValues ==
    { Num, Str(<<>>), Str(<<" ">>),
      Str(<<"/", "media", "/", "a.mp3">>),
      Str(<<"/", "media", "/", "gone.mp3">>),
      Str(<<"/", "b.mp3">>) }

\* the bpm a station carries before the run, in tenths
OldBpm == 10 * 120

\* dict.pop(k, None)
Pop(st, k) == [x \in DOMAIN st \ {k} |-> st[x]]
\* dict[k] = v
PutOnly(st, k, v) == [x \in {k} |-> v]

Put(st, k, v) == [x \in DOMAIN st \cup {k} |-> IF x = k THEN v ELSE st[x]]

StationRecords ==
    {[id |-> 7], [id |-> 7, bpm |-> OldBpm]}
        \cup {[id |-> 7, track |-> t] : t \in TrackValues}
        \cup {[id |-> 7, track |-> t, bpm |-> OldBpm] : t \in TrackValues}

StationLists == UNION {[1..n -> StationRecords] : n \in 0..MaxStations}

Catalogs ==
    {[version |-> 1]} \cup {[version |-> 1, stations |-> l] : l \in StationLists}

\* payload.get("stations", [])
Stations(p) == IF "stations" \in DOMAIN p THEN p.stations ELSE <<>>

\* station.get("track")
HasValidTrack(st) ==
    /\ "track" \in DOMAIN st
    /\ IsStr(st.track)
    /\ Strip(st.track.val) # <<>>

NoPayload == [unread |-> TRUE]
\* estimate_bpm was not called for the station
NotCalled == Absent - 1

----------------------------------------------------------------------------
(* update_station_bpm.py: main *)

UpdIdle ==
    /\ pc = "idle"
    /\ disk = NoPayload
    /\ disk0 = NoPayload
    /\ payload = NoPayload
    /\ idx = 0
    /\ attempts = <<>>
    /\ reads = 0
    /\ writes = 0

UpdInit ==
    /\ pc = "start"
    /\ disk \in Catalogs
    /\ disk0 = disk
    /\ payload = NoPayload
    /\ idx = 0
    /\ attempts = <<>>
    /\ reads = 0
    /\ writes = 0

InLoop == pc = "loop" /\ idx <= Len(Stations(payload))

\* station.pop("bpm", None) left out
KeepBpm == payload

\* station.pop("bpm", None) on the station the loop is at
PopBpm == [payload EXCEPT !.stations[idx] = Pop(@, "bpm")]

\* station["bpm"] = bpm
SetBpm(bpm) == [payload EXCEPT !.stations[idx] = Put(@, "bpm", bpm)]

\* payload = json.loads(STATIONS_PATH.read_text(...)); stations = payload.get(...)
UpdRead ==
    /\ pc = "start"
    /\ payload' = disk
    /\ reads' = reads + 1
    /\ idx' = 1
    /\ pc' = "loop"
    /\ UNCHANGED <<disk, disk0, attempts, writes>>
    /\ UNCHANGED <<cvars, evars, mvars>>

\* if not isinstance(track_value, str) or not track_value.strip(): pop; continue
UpdSkipBlank ==
    /\ InLoop
    /\ ~HasValidTrack(payload.stations[idx])
    /\ payload' = PopBpm
    /\ attempts' = Append(attempts, NotCalled)
    /\ idx' = idx + 1
    /\ UNCHANGED <<pc, disk, disk0, reads, writes>>
    /\ UNCHANGED <<cvars, evars, mvars>>

\* if not track_path.exists(): pop; continue
UpdTrackMissing ==
    /\ InLoop
    /\ HasValidTrack(payload.stations[idx])
    /\ ~PathExists(TrackPath(payload.stations[idx].track.val))
    /\ payload' = PopBpm
    /\ attempts' = Append(attempts, NotCalled)
    /\ idx' = idx + 1
    /\ UNCHANGED <<pc, disk, disk0, reads, writes>>
    /\ UNCHANGED <<cvars, evars, mvars>>

\* bpm, confidence = estimate_bpm(track_path): the call
UpdEstimate ==
    /\ InLoop
    /\ HasValidTrack(payload.stations[idx])
    /\ PathExists(TrackPath(payload.stations[idx].track.val))
    /\ EstCall
    /\ pc' = "estimating"
    /\ UNCHANGED <<disk, disk0, payload, idx, attempts, reads, writes>>
    /\ UNCHANGED <<cvars, mvars>>

\* if bpm is None: pop; continue
UpdUnavailable ==
    /\ pc = "estimating"
    /\ epc = "returned"
    /\ result.bpm = Absent
    /\ payload' = PopBpm
    /\ attempts' = Append(attempts, Absent)
    /\ idx' = idx + 1
    /\ pc' = "loop"
    /\ EstClear
    /\ UNCHANGED <<disk, disk0, reads, writes>>
    /\ UNCHANGED <<cvars, mvars>>

\* station["bpm"] = bpm, saving the catalog after each station
UpdSetBpmSaving ==
    /\ pc = "estimating"
    /\ epc = "returned"
    /\ result.bpm # Absent
    /\ payload' = SetBpm(result.bpm)
    /\ disk' = payload'
    /\ attempts' = Append(attempts, result.bpm)
    /\ idx' = idx + 1
    /\ pc' = "loop"
    /\ EstClear
    /\ UNCHANGED <<disk0, reads, writes>>
    /\ UNCHANGED <<cvars, mvars>>

\* station["bpm"] = bpm
UpdSetBpm ==
    /\ pc = "estimating"
    /\ epc = "returned"
    /\ result.bpm # Absent
    /\ payload' = SetBpm(result.bpm)
    /\ attempts' = Append(attempts, result.bpm)
    /\ idx' = idx + 1
    /\ pc' = "loop"
    /\ EstClear
    /\ UNCHANGED <<disk, disk0, reads, writes>>
    /\ UNCHANGED <<cvars, mvars>>

\* an error raised by librosa inside estimate_bpm is caught nowhere: it leaves
\* the loop and main
UpdCrash ==
    /\ pc = "estimating"
    /\ epc = "raised"
    /\ pc' = "aborted"
    /\ UNCHANGED <<disk, disk0, payload, idx, attempts, reads, writes>>
    /\ UNCHANGED <<cvars, evars, mvars>>

\* STATIONS_PATH.write_text(json.dumps(payload, indent=2) + "\n", ...)
UpdWrite ==
    /\ pc = "loop"
    /\ idx > Len(Stations(payload))
    /\ disk' = payload
    /\ writes' = writes + 1
    /\ pc' = "done"
    /\ UNCHANGED <<disk0, payload, idx, attempts, reads>>
    /\ UNCHANGED <<cvars, evars, mvars>>

----------------------------------------------------------------------------
(* Specifications *)

\* the catalog updater
Init == ClampIdle /\ EstIdle /\ CliIdle /\ UpdInit

Next ==
    \/ UpdRead
    \/ UpdSkipBlank
    \/ UpdTrackMissing
    \/ UpdEstimate
    \/ UpdUnavailable
    \/ UpdSetBpm
    \/ UpdCrash
    \/ UpdWrite
    \/ EstDuration(CatalogDurations)
    \/ EstDurationRaises
    \/ EstWindow(CatalogTempos)
    \/ EstWindowRaises
    \/ EstReturn

Spec == Init /\ [][Next]_vars

\* the single-track estimator
CliInit ==
    /\ ClampIdle /\ EstIdle /\ UpdIdle
    /\ mpc = "start"
    /\ exists \in BOOLEAN
    /\ out = NoOut
    /\ exitCode = Absent

CliNext ==
    \/ CliTrackNotFound
    \/ CliEstimate
    \/ CliUnavailable
    \/ CliPrint
    \/ CliCrash
    \/ EstDuration(Durations)
    \/ EstDurationRaises
    \/ EstWindow(Tempos)
    \/ EstWindowRaises
    \/ EstReturn

CliSpec == CliInit /\ [][CliNext]_vars

\* clamp_bpm on its own, on every input
ClampSpecInit == ClampInit /\ EstIdle /\ CliIdle /\ UpdIdle

ClampNext ==
    \/ ClampDoubleTest
    \/ ClampDouble
    \/ ClampDoubleExit
    \/ ClampHalveTest
    \/ ClampHalve
    \/ ClampReturn

ClampSpec == ClampSpecInit /\ [][ClampNext]_vars

\* the interpreter keeps executing the loop it is in
ClampFairSpec == ClampSpec /\ WF_vars(ClampNext)

----------------------------------------------------------------------------
(* Properties *)

IsPowerOfTwo(n) == \E k \in 0..n : 2 ^ k = n

C4_Terminates == <>(cpc \in {"done", "error"})

\* C10: a present BPM returned by estimate_bpm is between 75.0 and 190.0, both
\* included; so is every window value, and the result lies between the
\* smallest and the largest window value.
C10_PresentInRange ==
    (epc = "returned" /\ result.bpm # Absent) =>
        /\ 10 * Lo <= result.bpm /\ result.bpm <= 10 * Hi
        /\ \A i \in DOMAIN estimates : 10 * Lo <= estimates[i] /\ estimates[i] <= 10 * Hi
        /\ MinOf(Range(estimates)) <= result.bpm
        /\ result.bpm <= MaxOf(Range(estimates))

C10_Witness ==
    /\ epc = "returned"
    /\ result.bpm = 10 * Hi
    /\ Len(estimates) = 2

\* C7: estimate_bpm returns an absent BPM exactly when the duration is <= 0 or
\* no window gave a value, then with confidence 0.0; with a duration <= 0 no
\* window is loaded; otherwise all three are, and the values aggregated are
\* those of the windows that gave one, in order.
C7_AbsentExactly ==
    epc = "returned" =>
        /\ result.bpm = Absent <=>
              (duration <= 0 \/ \A i \in DOMAIN wins : wins[i] = Absent)
        /\ result.bpm = Absent => result.conf = 0
        /\ duration <= 0 => (loads = 0 /\ wins = <<>>)
        /\ duration > 0 => (loads = NumWindows /\ Len(wins) = NumWindows)
        /\ estimates = SelectSeq(wins, LAMBDA w : w # Absent)

C7_Witness ==
    /\ epc = "returned"
    /\ duration > 0
    /\ loads = NumWindows
    /\ \A i \in DOMAIN wins : wins[i] = Absent
    /\ result = [bpm |-> Absent, conf |-> 0]

\* the window values disagree by max - min
SpreadOf(es) == MaxOf(Range(es)) - MinOf(Range(es))

\* C8: for a non-empty collection of window values the confidence is in
\* [0, 1], is 1.0 for a single value or equal values, is 0.0 exactly when the
\* spread is at least 18 BPM, and no collection with a larger spread has a
\* larger confidence.
C8_Confidence ==
    (epc = "returned" /\ estimates # <<>>) =>
        /\ 0 <= result.conf /\ result.conf <= ConfDen
        /\ Cardinality(Range(estimates)) = 1 => result.conf = ConfDen
        /\ result.conf = 0 <=> SpreadOf(estimates) >= 10 * 18
        /\ \A wider \in SpreadOf(estimates) .. 10 * (Hi - Lo) :
              Confidence(wider) <= result.conf

C8_Witness ==
    /\ epc = "returned"
    /\ Len(estimates) = NumWindows
    /\ SpreadOf(estimates) = 10 * 18
    /\ result.conf = 0

\* the estimation attempt made for station i succeeded
Succeeded(i) ==
    /\ HasValidTrack(disk0.stations[i])
    /\ PathExists(TrackPath(disk0.stations[i].track.val))
    /\ attempts[i] \notin {NotCalled, Absent}

\* C1: in the catalog written, a station has a bpm exactly if the estimation
\* attempt made for it in this run succeeded, and then the bpm is the value
\* estimated.
C1_BpmIffSucceeded ==
    pc = "done" =>
        /\ Len(attempts) = Len(Stations(disk))
        /\ \A i \in DOMAIN Stations(disk) :
              /\ "bpm" \in DOMAIN disk.stations[i] <=> Succeeded(i)
              /\ Succeeded(i) => disk.stations[i].bpm = attempts[i]

C1_Witness ==
    /\ pc = "done"
    /\ \E i, j \in DOMAIN Stations(disk) :
          /\ ~HasValidTrack(disk0.stations[i])
          /\ "bpm" \in DOMAIN disk0.stations[i]
          /\ "bpm" \notin DOMAIN disk.stations[i]
          /\ Succeeded(j)
          /\ "bpm" \in DOMAIN disk.stations[j]

\* C2: the run never aborts, whatever happens while a station is estimated.
C2_NeverAborts == pc # "aborted"

\* C5: the catalog is read once, before any station is processed, and every
\* run that has ended has written it once, after all stations; until then
\* the file holds what was read.
C5_ReadOnceWriteOnce ==
    /\ reads <= 1 /\ writes <= 1
    /\ pc # "start" => reads = 1
    /\ writes = 1 => (pc = "done" /\ Len(attempts) = Len(Stations(payload)))
    /\ writes = 0 => disk = disk0
    /\ pc \in {"done", "aborted"} => writes = 1

\* C6: the catalog written differs from the one read in nothing but the bpm
\* keys of the stations.
C6_OnlyBpmChanges ==
    pc = "done" =>
        /\ DOMAIN disk = DOMAIN disk0
        /\ \A k \in DOMAIN disk \ {"stations"} : disk[k] = disk0[k]
        /\ Len(Stations(disk)) = Len(Stations(disk0))
        /\ \A i \in DOMAIN Stations(disk) :
              /\ DOMAIN disk.stations[i] \ {"bpm"} = DOMAIN disk0.stations[i] \ {"bpm"}
              /\ \A k \in DOMAIN disk.stations[i] \ {"bpm"} :
                    disk.stations[i][k] = disk0.stations[i][k]

C6_Witness ==
    /\ pc = "done"
    /\ Len(Stations(disk)) = 2
    /\ "track" \in DOMAIN disk.stations[1]
    /\ "track" \in DOMAIN disk.stations[2]
    /\ disk.stations[1].track # disk.stations[2].track
    /\ "bpm" \in DOMAIN disk.stations[1]
    /\ "bpm" \notin DOMAIN disk0.stations[1]
    /\ "bpm" \in DOMAIN disk0.stations[2]
    /\ "bpm" \notin DOMAIN disk.stations[2]

\* C9: when estimating a station raises, the run ends without a write: the
\* file holds what was read, whatever was changed in memory before.
C9_AbortWritesNothing ==
    pc = "aborted" => (writes = 0 /\ disk = disk0)

C9_Witness ==
    /\ pc = "aborted"
    /\ idx = 2
    /\ payload # disk
    /\ disk = disk0

====
